---- MODULE Spec2Model ----
(***************************************************************************)
(* Huffman coding (src/problem_3.py): frequency table, deque-based tree    *)
(* construction, path search, encoder and the recursive decoder.           *)
(*                                                                         *)
(* A Python string is a sequence of one-character strings.  Node objects   *)
(* live in a heap `nodes` (a sequence of records); a reference to a Node   *)
(* is its index in the heap and None is the reference 0.                   *)
(***************************************************************************)
EXTENDS Integers, Sequences, FiniteSets, TLC

\* ---------------------------------------------------------------- bounds
\* number of distinct symbols of the run-length inputs
NumSyms == 5
\* largest occurrence count of one symbol in a run-length input
MaxCount == 3
\* longest input in which the symbols come in any order
MaxLen == 5
\* longest bitstring handed to the decoder besides the encoder's own output
MaxBits == 3

Alphabet == <<"A", "B", "C", "D", "E", "F", "G", "H">>
ArbSymbols == {"A", "B", "C"}
Bits == {"0", "1"}

\* None as a Node reference, and None as the element of a symbol-less Node
None == 0
NoElement == "None"

\* ------------------------------------------------------------- sequences
RECURSIVE Repeat(_, _)
Repeat(x, n) == IF n = 0 THEN <<>> ELSE <<x>> \o Repeat(x, n - 1)

RECURSIVE Blocks(_, _)
Blocks(c, i) ==
    IF i > NumSyms THEN <<>> ELSE Repeat(Alphabet[i], c[i]) \o Blocks(c, i + 1)

StringsUpTo(S, n) == UNION {[1..k -> S] : k \in 0..n}

\* the frequency profiles: counts a >= b >= c ... in 0..MaxCount.  The tree
\* depends on the input through the counts only (the symbols are labels, and
\* the sort orders the leaves by count), so these give every shape of tree
\* of up to NumSyms leaves of weight up to MaxCount; the sort has to
\* reverse each of them.
Profiles ==
    {c \in [1..NumSyms -> 0..MaxCount] : \A i \in 1..(NumSyms - 1) : c[i] >= c[i + 1]}

\* the inputs of the test cases 1, 2 and 4 of the source
TestInputs ==
    { <<"H", "U", "F", "F", "M", "A", "N">>,
      <<"A", "A", "A", "A", "A", "B", "B", "A", "H", "H", "B", "C", "B", "G", "C", "C", "C">>,
      <<"A", "A", "A", "A", "A">> }

\* the inputs: every string over ArbSymbols up to MaxLen, the string
\* A^a B^b C^c ... of every frequency profile, and the test inputs
Inputs ==
    StringsUpTo(ArbSymbols, MaxLen) \cup {Blocks(c, 1) : c \in Profiles} \cup TestInputs

BitStrings == StringsUpTo(Bits, MaxBits)

\* ------------------------------------------------------------------ Node
Node(element, freq_value) ==
    [element |-> element, freq_value |-> freq_value, left |-> None, right |-> None]

get_freq_value(h, n) == h[n].freq_value
get_element(h, n) == h[n].element
has_left_child(h, n) == h[n].left # None
has_right_child(h, n) == h[n].right # None

\* ------------------------------------------------------ _create_freq_dist
\* a dict is a sequence of (key, value) entries in insertion order
HasKey(d, e) == \E i \in 1..Len(d) : d[i].element = e

FreqAdd(d, e) ==
    IF HasKey(d, e)
    THEN [i \in 1..Len(d) |->
            IF d[i].element = e
            THEN [element |-> e, freq |-> d[i].freq + 1]
            ELSE d[i]]
    ELSE Append(d, [element |-> e, freq |-> 1])

RECURSIVE FreqFold(_, _, _)
FreqFold(d, s, i) ==
    IF i > Len(s) THEN d ELSE FreqFold(FreqAdd(d, s[i]), s, i + 1)

create_freq_dist(s) == FreqFold(<<>>, s, 1)

\* ---------------------------------------------------------- _create_nodes
\* one leaf per dict entry, in dict order
LeafNodes(d) == [i \in 1..Len(d) |-> Node(d[i].element, d[i].freq)]

\* sorted(..., key=freq_value) is stable: x goes behind every entry whose
\* key is not larger
RECURSIVE InsertSorted(_, _, _)
InsertSorted(h, q, x) ==
    IF q = <<>> THEN <<x>>
    ELSE IF get_freq_value(h, x) < get_freq_value(h, Head(q))
         THEN <<x>> \o q
         ELSE <<Head(q)>> \o InsertSorted(h, Tail(q), x)

RECURSIVE SortedFrom(_, _, _)
SortedFrom(h, q, i) ==
    IF i > Len(h) THEN q ELSE SortedFrom(h, InsertSorted(h, q, i), i + 1)

sorted(h) == SortedFrom(h, <<>>, 1)

\* --------------------------------------------------------- _connect_nodes
\* the correction step: first_tree goes to the back, a new one is drawn
NeedsSwap(h, first, second) == get_freq_value(h, first) > get_freq_value(h, second)

\* total_freq with the left child's weight read twice
total_freq_left(h, l, r) == get_freq_value(h, l) + get_freq_value(h, l)

total_freq(h, l, r) == get_freq_value(h, l) + get_freq_value(h, r)

\* the parent Node of two trees
tree_node(h, l, r) ==
    [element |-> NoElement, freq_value |-> total_freq(h, l, r), left |-> l, right |-> r]

\* the correction step without the second popleft: first_tree is appended
\* and merged as well
AfterSwap_noredraw(h, q) ==
    LET first == q[1]
        second == q[2]
        rest == Tail(Tail(q))
    IN IF NeedsSwap(h, first, second)
       THEN [first |-> first, second |-> second, rest |-> Append(rest, first)]
       ELSE [first |-> first, second |-> second, rest |-> rest]

\* the working set between the pops and the appendleft of one iteration
AfterSwap(h, q) ==
    LET first == q[1]
        second == q[2]
        rest == Tail(Tail(q))
    IN IF NeedsSwap(h, first, second)
       THEN LET q2 == Append(rest, first)
            IN [first |-> Head(q2), second |-> second, rest |-> Tail(q2)]
       ELSE [first |-> first, second |-> second, rest |-> rest]

\* the synthetic root with the only child on the right
SingleRoot_right(child) ==
    [element |-> NoElement, freq_value |-> 1, left |-> None, right |-> child]

\* the synthetic root of the one-node case
SingleRoot(child) ==
    [element |-> NoElement, freq_value |-> 1, left |-> child, right |-> None]

\* ------------------------------------------------------------ search_tree
NoPath == [found |-> FALSE, path |-> <<>>]
Path(p) == [found |-> TRUE, path |-> p]

\* search_tree with the two bits exchanged
RECURSIVE search_tree_swapped(_, _, _)
search_tree_swapped(h, element, r) ==
    IF get_element(h, r) = element THEN Path(<<>>)
    ELSE LET left == IF has_left_child(h, r)
                     THEN search_tree_swapped(h, element, h[r].left) ELSE NoPath
             right == IF has_right_child(h, r)
                      THEN search_tree_swapped(h, element, h[r].right) ELSE NoPath
         IN IF left.found THEN Path(<<"1">> \o left.path)
            ELSE IF right.found THEN Path(<<"0">> \o right.path)
            ELSE NoPath

\* search_tree that returns the left result without its '0'
RECURSIVE search_tree_nobit(_, _, _)
search_tree_nobit(h, element, r) ==
    IF get_element(h, r) = element THEN Path(<<>>)
    ELSE LET left == IF has_left_child(h, r)
                     THEN search_tree_nobit(h, element, h[r].left) ELSE NoPath
             right == IF has_right_child(h, r)
                      THEN search_tree_nobit(h, element, h[r].right) ELSE NoPath
         IN IF left.found THEN Path(left.path)
            ELSE IF right.found THEN Path(<<"1">> \o right.path)
            ELSE NoPath

RECURSIVE search_tree(_, _, _)
search_tree(h, element, r) ==
    IF get_element(h, r) = element THEN Path(<<>>)
    ELSE LET left == IF has_left_child(h, r)
                     THEN search_tree(h, element, h[r].left) ELSE NoPath
             right == IF has_right_child(h, r)
                      THEN search_tree(h, element, h[r].right) ELSE NoPath
         IN IF left.found THEN Path(<<"0">> \o left.path)
            ELSE IF right.found THEN Path(<<"1">> \o right.path)
            ELSE NoPath

\* ------------------------------------------------------ _huffman_decoding
is_leaf(h, n) == ~has_left_child(h, n) /\ ~has_right_child(h, n)

\* the descent with the test of the bit inverted
next_child_swapped(h, n, bit) == IF bit = "1" THEN h[n].left ELSE h[n].right

next_child(h, n, bit) == IF bit = "0" THEN h[n].left ELSE h[n].right

\* ------------------------------------------------------------------ state
VARIABLES
    data,          \* the argument of huffman_encoding
    pc,            \* where the program is
    freq_dict,     \* the frequency distribution
    nodes,         \* the heap of Node objects
    node_deque,    \* the working set of _connect_nodes
    merges,        \* iterations of the merge loop so far
    root,          \* HuffmanTree.root
    enc_idx,       \* characters encoded so far
    encoded_data,  \* the encoder's accumulator
    code,          \* the argument of huffman_decoding
    child,         \* _huffman_decoding: current node
    dec_data,      \* _huffman_decoding: data
    idx            \* _huffman_decoding: idx

vars == <<data, pc, freq_dict, nodes, node_deque, merges, root, enc_idx,
          encoded_data, code, child, dec_data, idx>>

buildVars == <<freq_dict, nodes, node_deque, merges, root>>
encVars == <<enc_idx, encoded_data>>
decVars == <<code, child, dec_data, idx>>

Init ==
    /\ data \in Inputs
    /\ pc = "create_tree"
    /\ freq_dict = <<>>
    /\ nodes = <<>>
    /\ node_deque = <<>>
    /\ merges = 0
    /\ root = None
    /\ enc_idx = 0
    /\ encoded_data = <<>>
    /\ code = <<>>
    /\ child = None
    /\ dec_data = <<>>
    /\ idx = 0

\* ---------------------------------------------------------------- actions
\* the check of the input against None instead of ''
IsEmptyString_none(s) == FALSE

\* self.data == ''
IsEmptyString(s) == s = <<>>

\* HuffmanTree._create_tree, the check of the input
create_tree ==
    /\ pc = "create_tree"
    /\ pc' = IF IsEmptyString(data) THEN "ValueError" ELSE "create_freq_dist"
    /\ UNCHANGED <<data, buildVars, encVars, decVars>>

CreateFreqDist ==
    /\ pc = "create_freq_dist"
    /\ freq_dict' = create_freq_dist(data)
    /\ pc' = "create_nodes"
    /\ UNCHANGED <<data, nodes, node_deque, merges, root, encVars, decVars>>

create_nodes ==
    /\ pc = "create_nodes"
    /\ nodes' = LeafNodes(freq_dict)
    /\ node_deque' = sorted(nodes')
    /\ pc' = "connect_nodes"
    /\ UNCHANGED <<data, freq_dict, merges, root, encVars, decVars>>

\* _connect_nodes, the case of one node
ConnectSingle ==
    /\ pc = "connect_nodes"
    /\ Len(node_deque) = 1
    /\ nodes' = Append(nodes, SingleRoot(node_deque[1]))
    /\ node_deque' = <<>>
    /\ root' = Len(nodes')
    /\ pc' = "encode"
    /\ UNCHANGED <<data, freq_dict, merges, encVars, decVars>>

\* one iteration of the merge loop
MergeTrees ==
    /\ pc \in {"connect_nodes", "merge_loop"}
    /\ Len(node_deque) > 1
    /\ LET s == AfterSwap(nodes, node_deque)
       IN /\ nodes' = Append(nodes, tree_node(nodes, s.first, s.second))
          /\ node_deque' = <<Len(nodes')>> \o s.rest
    /\ merges' = merges + 1
    /\ pc' = "merge_loop"
    /\ UNCHANGED <<data, freq_dict, root, encVars, decVars>>

\* the end of the merge loop: return node_deque.pop()
ConnectReturn ==
    /\ \/ pc = "merge_loop" /\ Len(node_deque) <= 1
       \/ pc = "connect_nodes" /\ Len(node_deque) = 0
    /\ IF node_deque = <<>>
       THEN /\ pc' = "IndexError"
            /\ UNCHANGED <<node_deque, root>>
       ELSE /\ root' = node_deque[Len(node_deque)]
            /\ node_deque' = SubSeq(node_deque, 1, Len(node_deque) - 1)
            /\ pc' = "encode"
    /\ UNCHANGED <<data, freq_dict, nodes, merges, encVars, decVars>>

\* huffman_encoding, one character
EncodeChar ==
    /\ pc = "encode"
    /\ enc_idx < Len(data)
    /\ LET p == search_tree(nodes, data[enc_idx + 1], root)
       IN IF p.found
          THEN /\ encoded_data' = encoded_data \o p.path
               /\ enc_idx' = enc_idx + 1
               /\ pc' = pc
          ELSE /\ pc' = "TypeError"
               /\ UNCHANGED <<enc_idx, encoded_data>>
    /\ UNCHANGED <<data, buildVars, decVars>>

\* huffman_encoding returns (encoded_data, root)
EncodeReturn ==
    /\ pc = "encode"
    /\ enc_idx >= Len(data)
    /\ pc' = "encoded"
    /\ UNCHANGED <<data, buildVars, encVars, decVars>>

\* huffman_decoding(code, root)
huffman_decoding ==
    /\ pc = "encoded"
    /\ \E c \in BitStrings \cup {encoded_data} : code' = c
    /\ child' = root
    /\ dec_data' = <<>>
    /\ idx' = 0
    /\ pc' = "decoding"
    /\ UNCHANGED <<data, buildVars, encVars>>

\* _huffman_decoding on a leaf: emit and restart at the root
DecodeEmit ==
    /\ pc = "decoding"
    /\ child # None
    /\ is_leaf(nodes, child)
    /\ dec_data' = Append(dec_data, get_element(nodes, child))
    /\ child' = root
    /\ UNCHANGED <<data, pc, buildVars, encVars, code, idx>>

\* _huffman_decoding with the code exhausted
DecodeReturn ==
    /\ pc = "decoding"
    /\ child # None
    /\ ~is_leaf(nodes, child)
    /\ idx >= Len(code)
    /\ pc' = "done"
    /\ UNCHANGED <<data, buildVars, encVars, decVars>>

\* _huffman_decoding consumes one bit
DecodeBit ==
    /\ pc = "decoding"
    /\ child # None
    /\ ~is_leaf(nodes, child)
    /\ idx < Len(code)
    /\ child' = next_child(nodes, child, code[idx + 1])
    /\ idx' = idx + 1
    /\ UNCHANGED <<data, pc, buildVars, encVars, code, dec_data>>

\* _huffman_decoding called with child = None: None.has_left_child()
DecodeNone ==
    /\ pc = "decoding"
    /\ child = None
    /\ pc' = "AttributeError"
    /\ UNCHANGED <<data, buildVars, encVars, decVars>>

Next ==
    \/ create_tree
    \/ CreateFreqDist
    \/ create_nodes
    \/ ConnectSingle
    \/ MergeTrees
    \/ ConnectReturn
    \/ EncodeChar
    \/ EncodeReturn
    \/ huffman_decoding
    \/ DecodeEmit
    \/ DecodeReturn
    \/ DecodeBit
    \/ DecodeNone

Spec == Init /\ [][Next]_vars

\* ------------------------------------------------- notions of the claims
Distinct(s) == {s[i] : i \in 1..Len(s)}
Count(s, e) == Cardinality({i \in 1..Len(s) : s[i] = e})
NumDistinct == Cardinality(Distinct(data))

IsPrefix(p, q) == Len(p) <= Len(q) /\ SubSeq(q, 1, Len(p)) = p

\* the tree has been returned by _connect_nodes
TreeBuilt == pc \in {"encode", "encoded", "decoding", "done", "AttributeError"}
InMerge == pc \in {"connect_nodes", "merge_loop"}
\* the state in which _connect_nodes has just returned the tree (nodes and
\* root never change afterwards)
TreeReturned == pc = "encode" /\ enc_idx = 0

\* the code of a symbol in the finished tree, and the code table
CodeOf(x) == search_tree(nodes, x, root)
CodeTable == [x \in Distinct(data) |-> CodeOf(x).path]

\* every symbol sequence whose concatenated codes are exactly the bits b
RECURSIVE Parses(_, _)
Parses(codes, b) ==
    IF b = <<>> THEN {<<>>}
    ELSE UNION {{<<x>> \o P : P \in Parses(codes, SubSeq(b, Len(codes[x]) + 1, Len(b)))} :
                   x \in {y \in DOMAIN codes : codes[y] # <<>> /\ IsPrefix(codes[y], b)}}

RECURSIVE Subtree(_, _)
Subtree(h, n) ==
    IF n = None THEN {}
    ELSE {n} \cup Subtree(h, h[n].left) \cup Subtree(h, h[n].right)

RECURSIVE SumFreq(_, _)
SumFreq(h, q) == IF q = <<>> THEN 0 ELSE get_freq_value(h, Head(q)) + SumFreq(h, Tail(q))

\* the roots of the trees that exist: the working set, then the one root
WorkingSet == IF InMerge THEN node_deque ELSE <<root>>

\* ------------------------------------------------------------------ C1
\* C1: round trip. Encoding a non-empty input raises nothing, and decoding
\* the encoder's own bitstring with the encoder's tree raises nothing and
\* returns exactly the input (one distinct symbol included).
C1_RoundTrip ==
    /\ data # <<>> => pc \notin {"ValueError", "IndexError", "TypeError"}
    /\ (pc \in {"decoding", "done", "AttributeError"} /\ code = encoded_data)
          => /\ pc # "AttributeError"
             /\ pc = "done" => dec_data = data

C1_Witness ==
    /\ pc = "done"
    /\ code = encoded_data
    /\ data = <<"B", "A", "C", "A">>
    /\ dec_data = data

\* ------------------------------------------------------------------ C2
\* C2: prefix-free. In the finished tree every symbol of the input has a
\* code, and for two distinct symbols of the input neither code is a prefix
\* of the other.
C2_PrefixFree ==
    TreeReturned =>
        LET codes == CodeTable
        IN \A x, y \in Distinct(data) :
              /\ CodeOf(x).found
              /\ x # y => ~IsPrefix(codes[x], codes[y])

C2_Witness ==
    /\ TreeReturned
    /\ NumDistinct >= 4
    /\ \E x, y \in Distinct(data) : Len(CodeOf(x).path) < Len(CodeOf(y).path)

\* ------------------------------------------------------------------ C3
\* C3: empty input. For the empty string the only step taken is the check
\* that raises ValueError: no frequency table, node, working set or tree is
\* created and nothing is encoded or returned.
C3_EmptyInput ==
    data = <<>> =>
        /\ pc \in {"create_tree", "ValueError"}
        /\ freq_dict = <<>>
        /\ nodes = <<>>
        /\ node_deque = <<>>
        /\ root = None
        /\ encoded_data = <<>>

C3_Witness == data = <<>> /\ pc = "ValueError" /\ nodes = <<>>

\* ------------------------------------------------------------------ C4
\* C4 as stated: with one distinct symbol the symbol's code is the empty
\* path, encode("A") is "" and decode("", tree) is "A".
C4_Original ==
    (TreeBuilt /\ NumDistinct = 1) =>
        /\ \A x \in Distinct(data) : CodeOf(x) = Path(<<>>)
        /\ (pc = "encoded" /\ data = <<"A">>) => encoded_data = <<>>
        /\ (pc = "done" /\ data = <<"A">> /\ code = <<>>) => dec_data = <<"A">>

\* C4 as amended: with one distinct symbol the symbol's code is the one-bit
\* path "0", so the encoding is one "0" per input symbol (encode("A") is
\* "0"), decode("0", tree) is that symbol and decode("", tree) is "".
C4_SingleSymbol ==
    (TreeBuilt /\ NumDistinct = 1) =>
        /\ \A x \in Distinct(data) : CodeOf(x) = Path(<<"0">>)
        /\ pc # "encode" => encoded_data = Repeat("0", Len(data))
        /\ (pc = "done" /\ code = <<"0">>) => dec_data = <<data[1]>>
        /\ (pc = "done" /\ code = <<>>) => dec_data = <<>>

C4_Witness ==
    /\ data = <<"A">>
    /\ pc = "done"
    /\ encoded_data = <<"0">>
    /\ code = <<"0">>
    /\ dec_data = <<"A">>

\* ------------------------------------------------------------------ C5
\* C5: code length monotonicity. In the finished tree a symbol that occurs
\* less often than another has a code at least as long.
C5_Monotone ==
    TreeReturned =>
        LET codes == CodeTable
        IN \A x, y \in Distinct(data) :
              Count(data, x) < Count(data, y) => Len(codes[x]) >= Len(codes[y])

\* ------------------------------------------------------------------ C6
\* C6: truncated input. With at least two distinct symbols, when the decoded
\* bitstring is the codes of a symbol sequence P followed by a non-empty
\* proper prefix of a code, the decoder raises nothing and returns P.
\* the last k bits of the decoded bitstring are the first k < len bits of c
EndsInside(c, k) ==
    /\ k < Len(c)
    /\ k <= Len(code)
    /\ SubSeq(code, Len(code) - k + 1, Len(code)) = SubSeq(c, 1, k)

C6_Truncated ==
    (pc \in {"done", "AttributeError"} /\ NumDistinct >= 2) =>
        LET codes == CodeTable
        IN \A x \in Distinct(data) : \A k \in 1..Len(code) :
              EndsInside(codes[x], k) =>
                  \A P \in Parses(codes, SubSeq(code, 1, Len(code) - k)) :
                      pc = "done" /\ dec_data = P

C6_Witness ==
    /\ pc = "done"
    /\ NumDistinct >= 3
    /\ Len(code) = MaxBits
    /\ Len(dec_data) >= 1
    /\ \E x \in Distinct(data) : \E k \in 1..Len(code) :
          /\ EndsInside(CodeTable[x], k)
          /\ dec_data \in Parses(CodeTable, SubSeq(code, 1, Len(code) - k))

\* ------------------------------------------------------------------ C7
\* C7: greedy merge selection. After every iteration of the merge loop, no
\* tree left in the working set is strictly lighter than either of the two
\* trees that were just merged (the children of the node at the front).
C7_Greedy ==
    (pc = "merge_loop" /\ merges >= 1) =>
        LET m == node_deque[1]
        IN \A i \in 2..Len(node_deque) :
              /\ get_freq_value(nodes, node_deque[i]) >= get_freq_value(nodes, nodes[m].left)
              /\ get_freq_value(nodes, node_deque[i]) >= get_freq_value(nodes, nodes[m].right)

\* ------------------------------------------------------------------ C8
\* C8: well-formedness. With at least two distinct symbols, in every state
\* of the merge loop and in the returned tree: the trees of the working set
\* are disjoint and hold every node; each symbol of the input has exactly
\* one leaf, childless, whose weight is its number of occurrences; every
\* symbol-less node has two children and the sum of their weights; the root
\* weights sum to len(S). With one distinct symbol the result is a weight-1
\* root whose only child, the left one, is the sole leaf.
LeavesOf(x) == {n \in 1..Len(nodes) : nodes[n].element = x}

C8_WellFormed ==
    /\ ((InMerge \/ TreeReturned) /\ NumDistinct >= 2) =>
          /\ \A x \in Distinct(data) :
                /\ Cardinality(LeavesOf(x)) = 1
                /\ \A n \in LeavesOf(x) :
                      /\ is_leaf(nodes, n)
                      /\ get_freq_value(nodes, n) = Count(data, x)
          /\ \A n \in 1..Len(nodes) :
                /\ nodes[n].element \in Distinct(data) \cup {NoElement}
                /\ nodes[n].element = NoElement =>
                      /\ has_left_child(nodes, n)
                      /\ has_right_child(nodes, n)
                      /\ get_freq_value(nodes, n)
                            = get_freq_value(nodes, nodes[n].left)
                              + get_freq_value(nodes, nodes[n].right)
          /\ \A n \in 1..Len(nodes) :
                Cardinality({i \in 1..Len(WorkingSet) :
                                n \in Subtree(nodes, WorkingSet[i])}) = 1
          /\ SumFreq(nodes, WorkingSet) = Len(data)
    /\ (TreeReturned /\ NumDistinct = 1) =>
          /\ Len(nodes) = 2
          /\ get_element(nodes, root) = NoElement
          /\ get_freq_value(nodes, root) = 1
          /\ ~has_right_child(nodes, root)
          /\ has_left_child(nodes, root)
          /\ is_leaf(nodes, nodes[root].left)
          /\ get_element(nodes, nodes[root].left) = data[1]
          /\ get_freq_value(nodes, nodes[root].left) = Len(data)

C8_Witness ==
    /\ pc = "merge_loop"
    /\ NumDistinct >= 4
    /\ merges = 2
    /\ Len(node_deque) >= 2
    /\ SumFreq(nodes, node_deque) = Len(data)

\* ------------------------------------------------------------------ C9
\* C9: the merge loop terminates. With n >= 2 distinct symbols every
\* iteration leaves the working set one tree smaller, no pop finds it empty,
\* and the loop ends after exactly n-1 merges with one tree, which becomes
\* the root.
C9_Terminates ==
    NumDistinct >= 2 =>
        /\ pc # "IndexError"
        /\ InMerge =>
              /\ Len(node_deque) = NumDistinct - merges
              /\ Len(node_deque) >= 1
        /\ TreeBuilt =>
              /\ merges = NumDistinct - 1
              /\ node_deque = <<>>
              /\ Len(nodes) = 2 * NumDistinct - 1
              /\ root = Len(nodes)

C9_Witness ==
    /\ pc = "encode"
    /\ NumDistinct = NumSyms
    /\ merges = NumSyms - 1
    /\ \E n \in 1..Len(nodes) :
          /\ nodes[n].element = NoElement
          /\ get_freq_value(nodes, nodes[n].left) > get_freq_value(nodes, nodes[n].right)

\* ----------------------------------------------------------------- C10
\* C10: decoder totality. For every tree the encoder returns and every
\* bitstring, the current node of the decoder is always an existing node and
\* no call raises; the root is never a leaf.
C10_DecoderTotal ==
    pc \in {"decoding", "done", "AttributeError"} =>
        /\ child # None
        /\ pc # "AttributeError"
        /\ ~is_leaf(nodes, root)

TypeOK ==
    /\ pc \in {"create_tree", "create_freq_dist", "create_nodes", "connect_nodes",
               "merge_loop", "encode", "encoded", "decoding", "done",
               "ValueError", "IndexError", "TypeError", "AttributeError"}
    /\ root \in 0..Len(nodes)
    /\ child \in 0..Len(nodes)
====
